---- MODULE Spec2Model ----
(***************************************************************************)
(* A model of examples/src/lambda_function.py: the handler                 *)
(* lambda_handler(event, context), the process environment it reads, the   *)
(* root logger it is loaded with and the lines it hands to that logger.    *)
(*                                                                         *)
(* Text is modelled as a sequence of one-character strings, so that        *)
(* json.dumps (quoting, escaping, separators) and the f-string formatting  *)
(* are computed character by character and a decoder can undo them.        *)
(***************************************************************************)
EXTENDS Integers, Sequences, FiniteSets, TLC

VARIABLES environ, loggerLevel, logLen, emitted, last

vars == <<environ, loggerLevel, logLen, emitted, last>>

-----------------------------------------------------------------------------
(* Python values.  A value is a record [t, v]: t is the type, v the text   *)
(* of a str, the digits of an int, the items of a dict (a sequence of      *)
(* <<key, value>> pairs in insertion order), and empty otherwise.          *)

StrV(s) == [t |-> "str", v |-> s]

IntV(digits) == [t |-> "int", v |-> digits]

None == [t |-> "none", v |-> <<>>]

\* set(): an object json.dumps has no encoding for.
EmptySet == [t |-> "set", v |-> <<>>]

DictV(items) == [t |-> "dict", v |-> items]

QUOTE == "\""

BACKSLASH == "\\"

-----------------------------------------------------------------------------
(* json.dumps, as the handler calls it: default separators ", " and ": ",  *)
(* ensure_ascii, no default= hook, so a value of another type raises       *)
(* TypeError.  The result is [ok, s]: ok is FALSE when TypeError is raised.*)

EscapeChar(c) == IF c = QUOTE \/ c = BACKSLASH THEN <<BACKSLASH, c>> ELSE <<c>>

\* Escapes each character; the text is halved rather than walked, which
\* keeps the evaluation shallow on a long body.
RECURSIVE Escape(_)
Escape(s) ==
    IF s = <<>> THEN <<>>
    ELSE IF Len(s) = 1 THEN EscapeChar(s[1])
    ELSE LET h == Len(s) \div 2
         IN Escape(SubSeq(s, 1, h)) \o Escape(SubSeq(s, h + 1, Len(s)))

EncodeStr(s) == <<QUOTE>> \o Escape(s) \o <<QUOTE>>

DumpFail == [ok |-> FALSE, s |-> <<>>]

JoinItem(sep, k, d, rest) ==
    IF d.ok /\ rest.ok
    THEN [ok |-> TRUE, s |-> sep \o EncodeStr(k) \o <<":", " ">> \o d.s \o rest.s]
    ELSE DumpFail

Braces(d) == IF d.ok THEN [ok |-> TRUE, s |-> <<"{">> \o d.s \o <<"}">>] ELSE DumpFail

RECURSIVE JsonDumps(_)
RECURSIVE DumpItems(_, _)
DumpItems(items, first) ==
    IF items = <<>> THEN [ok |-> TRUE, s |-> <<>>]
    ELSE JoinItem(IF first THEN <<>> ELSE <<",", " ">>, Head(items)[1],
                  JsonDumps(Head(items)[2]), DumpItems(Tail(items), FALSE))

JsonDumps(x) ==
    CASE x.t = "str" -> [ok |-> TRUE, s |-> EncodeStr(x.v)]
      [] x.t = "int" -> [ok |-> TRUE, s |-> x.v]
      [] x.t = "none" -> [ok |-> TRUE, s |-> <<"n", "u", "l", "l">>]
      [] x.t = "dict" -> Braces(DumpItems(x.v, TRUE))
      [] OTHER -> DumpFail

-----------------------------------------------------------------------------
(* str(), as an f-string field applies it: a str is itself, None is        *)
(* "None", an int its digits, and a container its repr.                    *)

RECURSIVE PyRepr(_)
RECURSIVE ReprItems(_, _)
ReprStr(s) == <<"'">> \o s \o <<"'">>

ReprItems(items, first) ==
    IF items = <<>> THEN <<>>
    ELSE (IF first THEN <<>> ELSE <<",", " ">>) \o ReprStr(Head(items)[1]) \o <<":", " ">>
         \o PyRepr(Head(items)[2]) \o ReprItems(Tail(items), FALSE)

PyRepr(x) ==
    CASE x.t = "str" -> ReprStr(x.v)
      [] x.t = "int" -> x.v
      [] x.t = "none" -> <<"N", "o", "n", "e">>
      [] x.t = "dict" -> <<"{">> \o ReprItems(x.v, TRUE) \o <<"}">>
      [] OTHER -> <<"s", "e", "t", "(", ")">>

PyStr(x) == IF x.t = "str" THEN x.v ELSE PyRepr(x)

-----------------------------------------------------------------------------
(* json.loads, the decoder a caller applies to the body and to a logged    *)
(* line: strings with escapes, integers, null and objects.  The result is  *)
(* [ok, v, next]: the value read and the position after it.                *)

ParseFail == [ok |-> FALSE, v |-> None, next |-> 0]

Digits == {"0", "1", "2", "3", "4", "5", "6", "7", "8", "9"}

RECURSIVE SkipWs(_, _)
SkipWs(s, i) == IF i <= Len(s) /\ s[i] = " " THEN SkipWs(s, i + 1) ELSE i

\* Reads a string's characters from position i (after the opening quote)
\* to the closing quote, a run of at most k characters at a time.
RECURSIVE ScanRun(_, _, _, _)
ScanRun(s, i, acc, k) ==
    IF k = 0 THEN [st |-> "more", i |-> i, acc |-> acc]
    ELSE IF i > Len(s) THEN [st |-> "fail", i |-> i, acc |-> acc]
    ELSE IF s[i] = QUOTE THEN [st |-> "done", i |-> i + 1, acc |-> acc]
    ELSE IF s[i] = BACKSLASH
         THEN IF i + 1 <= Len(s) /\ s[i + 1] \in {QUOTE, BACKSLASH, "/"}
              THEN ScanRun(s, i + 2, Append(acc, s[i + 1]), k - 1)
              ELSE [st |-> "fail", i |-> i, acc |-> acc]
    ELSE ScanRun(s, i + 1, Append(acc, s[i]), k - 1)

RECURSIVE ScanString(_, _, _)
ScanNext(s, r) ==
    IF r.st = "more" THEN ScanString(s, r.i, r.acc)
    ELSE IF r.st = "done" THEN [ok |-> TRUE, v |-> StrV(r.acc), next |-> r.i]
    ELSE ParseFail

ScanString(s, i, acc) == ScanNext(s, ScanRun(s, i, acc, 16))

RECURSIVE ScanDigits(_, _)
ScanDigits(s, i) == IF i <= Len(s) /\ s[i] \in Digits THEN ScanDigits(s, i + 1) ELSE i

HasAt(s, i, word) == i + Len(word) - 1 <= Len(s) /\ SubSeq(s, i, i + Len(word) - 1) = word

RECURSIVE ParseValue(_, _)
RECURSIVE ParseItems(_, _, _)
AfterItem(s, e, items) ==
    IF e > Len(s) THEN ParseFail
    ELSE IF s[e] = "}" THEN [ok |-> TRUE, v |-> DictV(items), next |-> e + 1]
    ELSE IF s[e] = "," THEN ParseItems(s, SkipWs(s, e + 1), items)
    ELSE ParseFail

AfterValue(s, key, x, acc) ==
    IF ~x.ok THEN ParseFail ELSE AfterItem(s, SkipWs(s, x.next), Append(acc, <<key, x.v>>))

AfterColon(s, key, c, acc) ==
    IF c > Len(s) \/ s[c] # ":" THEN ParseFail
    ELSE AfterValue(s, key, ParseValue(s, SkipWs(s, c + 1)), acc)

AfterKey(s, k, acc) ==
    IF ~k.ok THEN ParseFail ELSE AfterColon(s, k.v.v, SkipWs(s, k.next), acc)

ParseItems(s, i, acc) ==
    IF i > Len(s) \/ s[i] # QUOTE THEN ParseFail
    ELSE AfterKey(s, ScanString(s, i + 1, <<>>), acc)

ParseInt(s, i, j) == [ok |-> TRUE, v |-> IntV(SubSeq(s, i, j - 1)), next |-> j]

ParseObject(s, j) ==
    IF j <= Len(s) /\ s[j] = "}"
    THEN [ok |-> TRUE, v |-> DictV(<<>>), next |-> j + 1]
    ELSE ParseItems(s, j, <<>>)

ParseValue(s, i) ==
    IF i > Len(s) THEN ParseFail
    ELSE IF s[i] = QUOTE THEN ScanString(s, i + 1, <<>>)
    ELSE IF s[i] \in Digits THEN ParseInt(s, i, ScanDigits(s, i))
    ELSE IF HasAt(s, i, <<"n", "u", "l", "l">>) THEN [ok |-> TRUE, v |-> None, next |-> i + 4]
    ELSE IF s[i] = "{" THEN ParseObject(s, SkipWs(s, i + 1))
    ELSE ParseFail

Complete(s, x) == IF x.ok /\ SkipWs(s, x.next) = Len(s) + 1 THEN x ELSE ParseFail

JsonLoads(s) == Complete(s, ParseValue(s, SkipWs(s, 1)))

\* dict lookups on a decoded or constructed dict value
RECURSIVE HasKey(_, _)
HasKey(items, k) == items # <<>> /\ (Head(items)[1] = k \/ HasKey(Tail(items), k))

RECURSIVE Lookup(_, _, _)
Lookup(items, k, default) ==
    IF items = <<>> THEN default
    ELSE IF Head(items)[1] = k THEN Head(items)[2]
    ELSE Lookup(Tail(items), k, default)

Keys(items) == [i \in 1..Len(items) |-> items[i][1]]

-----------------------------------------------------------------------------
(* The inputs.  An event is any Python value the platform hands over; a    *)
(* context is None or an object, which may be falsy (bool(context) is      *)
(* False) and may lack the function_version attribute.                     *)

NAME == <<"n", "a", "m", "e">>

Events ==
    { None,
      DictV(<<>>),
      DictV(<< <<<<"i", "d">>, IntV(<<"7">>)>> >>),
      DictV(<< <<NAME, StrV(<<>>)>> >>),
      DictV(<< <<NAME, StrV(<<"A", "d", "a">>)>> >>),
      DictV(<< <<NAME, StrV(<<"a", "\"", "b">>)>> >>),
      DictV(<< <<NAME, None>> >>),
      DictV(<< <<NAME, EmptySet>> >>) }

NoContext == [present |-> FALSE, truthy |-> FALSE, has_fv |-> FALSE, fv |-> None]

Contexts ==
    { NoContext,
      [present |-> TRUE, truthy |-> FALSE, has_fv |-> FALSE, fv |-> None],
      [present |-> TRUE, truthy |-> FALSE, has_fv |-> TRUE, fv |-> StrV(<<"2">>)],
      [present |-> TRUE, truthy |-> TRUE, has_fv |-> FALSE, fv |-> None],
      [present |-> TRUE, truthy |-> TRUE, has_fv |-> TRUE, fv |-> StrV(<<"3">>)],
      [present |-> TRUE, truthy |-> TRUE, has_fv |-> TRUE, fv |-> EmptySet] }

\* The process environment: each variable is unset or set to a text.
EnvNames == {"LOG_LEVEL", "STAGE", "ENV"}

Unset == [set |-> FALSE, v |-> <<>>]

SetTo(s) == [set |-> TRUE, v |-> s]

EnvValues(k) ==
    CASE k = "STAGE" -> {<<>>, <<"p", "r", "o", "d">>}
      [] k = "LOG_LEVEL" -> {<<>>, <<"I", "N", "F", "O">>}
      [] OTHER -> {<<"c", "i">>}

-----------------------------------------------------------------------------
(* Module load (lines 5-6): the root logger, set to logging.INFO.          *)

INFO == 20

WARNING == INFO + 10

\* Mutant: line 6 left out, the root logger keeps its WARNING level.
LevelNotSet == WARNING

LevelAtLoad == INFO

\* Logger.isEnabledFor(INFO)
IsEnabledForInfo(level) == INFO >= level

-----------------------------------------------------------------------------
(* One invocation is a frame: the arguments, the process state the handler *)
(* can reach, its locals, the lines it handed to the logger that were      *)
(* emitted, the operations it performed in order, and the exception that   *)
(* ended it ("" when none).                                                *)

NewFrame(event, context, env, level) ==
    [event |-> event, context |-> context, environ |-> env, level |-> level,
     lines |-> <<>>, trace |-> <<>>, exc |-> "",
     log_level |-> None, stage |-> None, name |-> None, function_version |-> None,
     response |-> None,
     returned |-> FALSE]

Did(f, op) == [f EXCEPT !.trace = Append(@, op)]

Raise(f, exc) == [f EXCEPT !.exc = exc]

\* Then(f, line): the statement at that line, run only when no earlier one
\* raised; defined after the statements, below.
RECURSIVE Then(_, _)

\* logger.info(msg)
Emit(g, msg) == IF IsEnabledForInfo(g.level) THEN [g EXCEPT !.lines = Append(@, msg)] ELSE g

LoggerInfo(f, msg) == Emit(Did(f, "logger.info"), msg)

\* Mutant: os.environ.get(key) or default, which takes "" for unset.
EnvGetOrDefault(env, key, default) ==
    IF env[key].set /\ env[key].v # <<>> THEN StrV(env[key].v) ELSE StrV(default)

\* os.environ.get(key, default)
EnvGet(env, key, default) == IF env[key].set THEN StrV(env[key].v) ELSE StrV(default)

\* line 21: logger.info(f"Received event: {json.dumps(event)}")
LogEvent(g, d) == IF d.ok THEN LoggerInfo(g, <<"R", "e", "c", "e", "i", "v", "e", "d", " ", "e", "v", "e", "n", "t", ":", " ">> \o d.s) ELSE Raise(g, "TypeError")

Line21(f) == LogEvent(Did(f, "json.dumps(event)"), JsonDumps(f.event))

\* line 23: log_level = os.environ.get("LOG_LEVEL", "INFO")
Line23(f) ==
    [Did(f, "environ.get(LOG_LEVEL)") EXCEPT !.log_level = EnvGet(f.environ, "LOG_LEVEL", <<"I", "N", "F", "O">>)]

\* Mutant: os.environ.get("STAGE", os.environ.get("ENV", "development"))
Line24Fallback(f) ==
    [Did(f, "environ.get(STAGE)") EXCEPT !.stage =
        IF f.environ["STAGE"].set THEN StrV(f.environ["STAGE"].v)
        ELSE EnvGet(f.environ, "ENV", <<"d", "e", "v", "e", "l", "o", "p", "m", "e", "n", "t">>)]

\* line 24: stage = os.environ.get("STAGE", "development")
Line24(f) ==
    [Did(f, "environ.get(STAGE)") EXCEPT !.stage = EnvGet(f.environ, "STAGE", <<"d", "e", "v", "e", "l", "o", "p", "m", "e", "n", "t">>)]

\* bool(x) of a value
Falsy(x) == x.v = <<>> \/ x = IntV(<<"0">>)

\* Mutant: name = event["name"]
Line26Subscript(f) ==
    IF f.event.t # "dict" THEN Raise(Did(f, "event.get(name)"), "TypeError")
    ELSE IF ~HasKey(f.event.v, NAME) THEN Raise(Did(f, "event.get(name)"), "KeyError")
    ELSE [Did(f, "event.get(name)") EXCEPT !.name = Lookup(f.event.v, NAME, None)]

\* Mutant: name = event.get("name") or "World"
Line26OrDefault(f) ==
    IF f.event.t # "dict" THEN Raise(Did(f, "event.get(name)"), "AttributeError")
    ELSE [Did(f, "event.get(name)") EXCEPT !.name =
             IF Falsy(Lookup(f.event.v, NAME, None)) THEN StrV(<<"W", "o", "r", "l", "d">>)
             ELSE Lookup(f.event.v, NAME, None)]

\* Mutant: name = event.get("name")
Line26NoDefault(f) ==
    IF f.event.t # "dict" THEN Raise(Did(f, "event.get(name)"), "AttributeError")
    ELSE [Did(f, "event.get(name)") EXCEPT !.name = Lookup(f.event.v, NAME, None)]

\* Mutant: name = (event or {}).get("name", "World")
Line26NullSafe(f) ==
    IF Falsy(f.event) THEN [Did(f, "event.get(name)") EXCEPT !.name = StrV(<<"W", "o", "r", "l", "d">>)]
    ELSE IF f.event.t # "dict" THEN Raise(Did(f, "event.get(name)"), "AttributeError")
    ELSE [Did(f, "event.get(name)") EXCEPT !.name = Lookup(f.event.v, NAME, StrV(<<"W", "o", "r", "l", "d">>))]

\* Mutant: name = event.setdefault("name", "World")
Line26SetDefault(f) ==
    IF f.event.t # "dict" THEN Raise(Did(f, "event.get(name)"), "AttributeError")
    ELSE IF HasKey(f.event.v, NAME)
         THEN [Did(f, "event.get(name)") EXCEPT !.name = Lookup(f.event.v, NAME, None)]
    ELSE [Did(f, "event.get(name)") EXCEPT
             !.name = StrV(<<"W", "o", "r", "l", "d">>),
             !.event = DictV(Append(f.event.v, <<NAME, StrV(<<"W", "o", "r", "l", "d">>)>>))]

\* line 26: name = event.get("name", "World")
Line26(f) ==
    IF f.event.t # "dict" THEN Raise(Did(f, "event.get(name)"), "AttributeError")
    ELSE [Did(f, "event.get(name)") EXCEPT !.name = Lookup(f.event.v, NAME, StrV(<<"W", "o", "r", "l", "d">>))]

\* Mutant: the test "if context is not None"
IsNotNone(context) == context.present

\* line 35: the test "if context"
Bool(context) == context.present /\ context.truthy

\* line 35: context.function_version if context else "unknown"
ReadVersion(g) ==
    IF ~g.context.has_fv THEN Raise(Did(g, "context.function_version"), "AttributeError")
    ELSE [Did(g, "context.function_version") EXCEPT !.function_version = g.context.fv]

Line35(f) ==
    IF Bool(f.context) THEN ReadVersion(Did(f, "bool(context)"))
    ELSE [Did(f, "bool(context)") EXCEPT !.function_version = StrV(<<"u", "n", "k", "n", "o", "w", "n">>)]

\* Mutant: the body built without its log_level entry.
BodyItemsNoLogLevel(f) ==
    << <<<<"m", "e", "s", "s", "a", "g", "e">>, StrV(<<"H", "e", "l", "l", "o", ",", " ">> \o PyStr(f.name) \o <<"!">>)>>,
       <<<<"s", "t", "a", "g", "e">>, f.stage>>,
       <<<<"f", "u", "n", "c", "t", "i", "o", "n", "_", "v", "e", "r", "s", "i", "o", "n">>, f.function_version>> >>

\* lines 31-36: the mapping that becomes the body
BodyItems(f) ==
    << <<<<"m", "e", "s", "s", "a", "g", "e">>, StrV(<<"H", "e", "l", "l", "o", ",", " ">> \o PyStr(f.name) \o <<"!">>)>>,
       <<<<"s", "t", "a", "g", "e">>, f.stage>>,
       <<<<"l", "o", "g", "_", "l", "e", "v", "e", "l">>, f.log_level>>,
       <<<<"f", "u", "n", "c", "t", "i", "o", "n", "_", "v", "e", "r", "s", "i", "o", "n">>, f.function_version>> >>

\* line 29: the int 200, held as the digits json.dumps writes
StatusCode == IntV(<<"2", "0", "0">>)

\* lines 28-38: response = {"statusCode": 200, "body": json.dumps({...})}
SetResponse(g, d) ==
    IF ~d.ok THEN Raise(g, "TypeError")
    ELSE [g EXCEPT !.response =
             DictV(<< <<<<"s", "t", "a", "t", "u", "s", "C", "o", "d", "e">>, StatusCode>>, <<<<"b", "o", "d", "y">>, StrV(d.s)>> >>)]

Line30(f) == SetResponse(Did(f, "json.dumps(body)"), JsonDumps(DictV(BodyItems(f))))

Line28(f) == Then(Line35(f), 30)

\* line 40: logger.info(f"Returning response: {json.dumps(response)}")
LogResponse(g, d) ==
    IF d.ok THEN LoggerInfo(g, <<"R", "e", "t", "u", "r", "n", "i", "n", "g", " ", "r", "e", "s", "p", "o", "n", "s", "e", ":", " ">> \o d.s) ELSE Raise(g, "TypeError")

Line40(f) == LogResponse(Did(f, "json.dumps(response)"), JsonDumps(f.response))

\* line 41: return response
Line41(f) == [Did(f, "return") EXCEPT !.returned = TRUE]

Statement(line, f) ==
    CASE line = 23 -> Line23(f)
      [] line = 24 -> Line24(f)
      [] line = 26 -> Line26(f)
      [] line = 28 -> Line28(f)
      [] line = 30 -> Line30(f)
      [] line = 40 -> Line40(f)
      [] line = 41 -> Line41(f)

Then(f, line) == IF f.exc # "" THEN f ELSE Statement(line, f)

\* lines 9-41
lambda_handler(event, context, env, level) ==
    Then(Then(Then(Then(Then(Then(Line21(NewFrame(event, context, env, level)),
        23), 24), 26), 28), 40), 41)

-----------------------------------------------------------------------------
(* The state: the process environment, the root logger's level, the number *)
(* of lines in the log stream and the lines the latest invocation added to *)
(* it, and the latest invocation: the arguments and the environment it    *)
(* was called with, what they were when it ended, and how it ended.        *)

MaxLog == 4

NotCalled ==
    [called |-> FALSE, event |-> None, context |-> NoContext, event_after |-> None,
     context_after |-> NoContext, environ |-> [k \in EnvNames |-> Unset],
     environ_after |-> [k \in EnvNames |-> Unset], log_before |-> 0,
     returned |-> FALSE, exc |-> "", response |-> None, trace |-> <<>>]

Init ==
    /\ environ \in [EnvNames -> {Unset}]
    /\ loggerLevel = LevelAtLoad
    /\ logLen = 0
    /\ emitted = <<>>
    /\ last = NotCalled

\* The platform or the process sets a variable.
SetEnv ==
    \E k \in EnvNames : \E s \in EnvValues(k) :
        /\ environ' = [environ EXCEPT ![k] = SetTo(s)]
        /\ UNCHANGED <<loggerLevel, logLen, emitted, last>>

\* The platform or the process removes a variable.
UnsetEnv ==
    \E k \in EnvNames :
        /\ environ[k].set
        /\ environ' = [environ EXCEPT ![k] = Unset]
        /\ UNCHANGED <<loggerLevel, logLen, emitted, last>>

\* Every environment the process can have.
Environs ==
    {env \in [EnvNames -> {Unset} \cup UNION {{SetTo(s) : s \in EnvValues(k)} : k \in EnvNames}] :
        \A k \in EnvNames : env[k].set => env[k].v \in EnvValues(k)}

\* lambda_handler on every input and process state, worked out once.
\* (@@ <<>> makes the table an explicit function rather than a rule
\* evaluated again at every use.)
Outcomes ==
    [x \in Events \X Contexts \X Environs \X {LevelAtLoad} |->
        lambda_handler(x[1], x[2], x[3], x[4])] @@ <<>>

\* The platform invokes the handler, which returns or raises.
Invoke ==
    /\ logLen + 2 <= MaxLog
    /\ \E event \in Events : \E context \in Contexts :
        \E f \in {Outcomes[<<event, context, environ, loggerLevel>>]} :
           /\ environ' = f.environ
           /\ loggerLevel' = f.level
           /\ emitted' = f.lines
           /\ logLen' = logLen + Len(f.lines)
           /\ last' = [called |-> TRUE, event |-> event, context |-> context,
                       event_after |-> f.event, context_after |-> f.context,
                       environ |-> environ, environ_after |-> f.environ,
                       log_before |-> logLen,
                       returned |-> f.returned, exc |-> f.exc,
                       response |-> f.response, trace |-> f.trace]

Next == SetEnv \/ UnsetEnv \/ Invoke

Spec == Init /\ [][Next]_vars

-----------------------------------------------------------------------------
(* What a caller sees of the latest invocation.                            *)

Returned == last.called /\ last.returned

Failed == last.called /\ ~last.returned

Truthy(context) == context.present /\ context.truthy

\* The body of a response, decoded; ParseFail when there is none.
DecodeBody(response) ==
    IF response.t = "dict" /\ Lookup(response.v, <<"b", "o", "d", "y">>, None).t = "str"
    THEN JsonLoads(Lookup(response.v, <<"b", "o", "d", "y">>, None).v)
    ELSE ParseFail

AllOutcomes == {Outcomes[x] : x \in DOMAIN Outcomes}

DecodedBodies == [r \in {f.response : f \in AllOutcomes} |-> DecodeBody(r)] @@ <<>>

Body == DecodedBodies[last.response]

BodyField(k) == Lookup(Body.v.v, k, None)

\* The JSON text of a log line after its prefix, decoded.
DecodeLine(line, prefix) ==
    IF HasAt(line, 1, prefix) THEN JsonLoads(SubSeq(line, Len(prefix) + 1, Len(line)))
    ELSE ParseFail

ReceivedPrefix == <<"R", "e", "c", "e", "i", "v", "e", "d", " ", "e", "v", "e", "n", "t", ":", " ">>

ReturningPrefix == <<"R", "e", "t", "u", "r", "n", "i", "n", "g", " ", "r", "e", "s", "p", "o", "n", "s", "e", ":", " ">>

AllLines == UNION {{f.lines[i] : i \in 1..Len(f.lines)} : f \in AllOutcomes}

DecodedReceived == [l \in AllLines |-> DecodeLine(l, ReceivedPrefix)] @@ <<>>

DecodedReturning == [l \in AllLines |-> DecodeLine(l, ReturningPrefix)] @@ <<>>

\* The positions of an operation in the latest invocation's trace.
At(op) == {i \in 1..Len(last.trace) : last.trace[i] = op}

Reads == {"environ.get(LOG_LEVEL)", "environ.get(STAGE)", "event.get(name)",
          "bool(context)", "context.function_version"}

\* The inputs the handler serves: an event that is a mapping json.dumps can
\* encode, and a context that is falsy or has an encodable function_version.
Servable(event, context) ==
    /\ event.t = "dict"
    /\ JsonDumps(event).ok
    /\ Truthy(context) => (context.has_fv /\ JsonDumps(context.fv).ok)

-----------------------------------------------------------------------------
\* C1 as stated: every invocation, whatever the event and the context,
\* returns a response whose statusCode is 200.
C1_EveryInvocationReturns200 ==
    last.called => (last.returned /\ Lookup(last.response.v, <<"s", "t", "a", "t", "u", "s", "C", "o", "d", "e">>, None) = IntV(<<"2", "0", "0">>))

\* C1, amended: every invocation that returns a response returns one whose
\* statusCode is 200; it returns one exactly when the event is a mapping that
\* can be serialized and the context is absent, falsy, or truthy with a
\* function_version that can be serialized; any other invocation raises and
\* gives no response.
C1_ReturnedResponseIs200 ==
    last.called =>
        /\ last.returned <=> Servable(last.event, last.context)
        /\ last.returned => (last.exc = "" /\ Lookup(last.response.v, <<"s", "t", "a", "t", "u", "s", "C", "o", "d", "e">>, None) = IntV(<<"2", "0", "0">>))
        /\ ~last.returned => (last.exc # "" /\ last.response = None)

C1_Witness ==
    /\ Returned
    /\ last.event = DictV(<<>>)
    /\ last.context.present /\ ~last.context.truthy /\ ~last.context.has_fv
    /\ Lookup(last.response.v, <<"s", "t", "a", "t", "u", "s", "C", "o", "d", "e">>, None) = IntV(<<"2", "0", "0">>)

\* C2: when the event holds the key name with value X, the decoded body's
\* message is "Hello, X!" (X as the f-string renders it: a str as itself,
\* None as "None"), under every environment and context.
C2_GreetsName ==
    (Returned /\ HasKey(last.event.v, NAME)) =>
        LET X == Lookup(last.event.v, NAME, None)
        IN /\ X.t = "str" => BodyField(<<"m", "e", "s", "s", "a", "g", "e">>) = StrV(<<"H", "e", "l", "l", "o", ",", " ">> \o X.v \o <<"!">>)
           /\ X.t = "none" => BodyField(<<"m", "e", "s", "s", "a", "g", "e">>) = StrV(<<"H", "e", "l", "l", "o", ",", " ", "N", "o", "n", "e", "!">>)
           /\ X.t \in {"str", "none"}

C2_Witness ==
    /\ Returned
    /\ last.event = DictV(<< <<NAME, StrV(<<>>)>> >>)
    /\ BodyField(<<"m", "e", "s", "s", "a", "g", "e">>) = StrV(<<"H", "e", "l", "l", "o", ",", " ", "!">>)
    /\ last.environ["STAGE"].set

\* C3: when the event has no name key the message is "Hello, World!", and a
\* name key that is present, with any value other than "World" itself, never
\* gives that message.
C3_DefaultOnlyWhenAbsent ==
    Returned =>
        /\ ~HasKey(last.event.v, NAME) => BodyField(<<"m", "e", "s", "s", "a", "g", "e">>) = StrV(<<"H", "e", "l", "l", "o", ",", " ", "W", "o", "r", "l", "d", "!">>)
        /\ (HasKey(last.event.v, NAME) /\ Lookup(last.event.v, NAME, None) # StrV(<<"W", "o", "r", "l", "d">>))
              => BodyField(<<"m", "e", "s", "s", "a", "g", "e">>) # StrV(<<"H", "e", "l", "l", "o", ",", " ", "W", "o", "r", "l", "d", "!">>)

C3_Witness ==
    /\ Returned
    /\ last.event = DictV(<< <<<<"i", "d">>, IntV(<<"7">>)>> >>)
    /\ BodyField(<<"m", "e", "s", "s", "a", "g", "e">>) = StrV(<<"H", "e", "l", "l", "o", ",", " ", "W", "o", "r", "l", "d", "!">>)

\* The value os.environ holds for a variable when the latest invocation was
\* made, or the default when it was unset then.
AtCall(k, default) == IF last.environ[k].set THEN StrV(last.environ[k].v) ELSE StrV(default)

\* C4: the body's stage and log_level are the values STAGE and LOG_LEVEL had
\* when that invocation was made, whatever they were before and are now:
\* the default when the variable was unset, and the variable's own value,
\* the empty string included, when it was set.
C4_EnvironmentAtCallTime ==
    Returned =>
        /\ BodyField(<<"s", "t", "a", "g", "e">>) = AtCall("STAGE", <<"d", "e", "v", "e", "l", "o", "p", "m", "e", "n", "t">>)
        /\ BodyField(<<"l", "o", "g", "_", "l", "e", "v", "e", "l">>) = AtCall("LOG_LEVEL", <<"I", "N", "F", "O">>)

C4_Witness ==
    /\ Returned
    /\ last.log_before > 0
    /\ last.environ["STAGE"] = SetTo(<<>>) /\ BodyField(<<"s", "t", "a", "g", "e">>) = StrV(<<>>)
    /\ ~last.environ["LOG_LEVEL"].set /\ BodyField(<<"l", "o", "g", "_", "l", "e", "v", "e", "l">>) = StrV(<<"I", "N", "F", "O">>)
    /\ environ["STAGE"] = SetTo(<<"p", "r", "o", "d">>)

\* C5: function_version in the body is the context's function_version when
\* the context is truthy and "unknown" otherwise (no context, or a falsy
\* one); a falsy context's function_version is not read, so a falsy context
\* without the field does not fail the invocation.
C5_FunctionVersion ==
    /\ Returned =>
          BodyField(<<"f", "u", "n", "c", "t", "i", "o", "n", "_", "v", "e", "r", "s", "i", "o", "n">>) =
              (IF Truthy(last.context) THEN last.context.fv ELSE StrV(<<"u", "n", "k", "n", "o", "w", "n">>))
    /\ (last.called /\ ~Truthy(last.context)) =>
          /\ At("context.function_version") = {}
          /\ last.returned <=> (last.event.t = "dict" /\ JsonDumps(last.event).ok)

C5_Witness ==
    /\ Returned
    /\ last.context.present /\ ~last.context.truthy
    /\ last.context.has_fv /\ last.context.fv = StrV(<<"2">>)
    /\ BodyField(<<"f", "u", "n", "c", "t", "i", "o", "n", "_", "v", "e", "r", "s", "i", "o", "n">>) = StrV(<<"u", "n", "k", "n", "o", "w", "n">>)

\* C6: an invocation that returns a response emits exactly two lines: first
\* the one holding the serialized event, before the environment, the
\* event's name and the context are read; last the one holding the
\* serialized response, after the response is built and right before the
\* return; the response logged is the response returned.
C6_TwoLinesInOrder ==
    Returned =>
        /\ Len(emitted) = 2
        /\ logLen = last.log_before + 2
        /\ DecodedReceived[emitted[1]].ok /\ DecodedReceived[emitted[1]].v = last.event
        /\ DecodedReturning[emitted[2]].ok /\ DecodedReturning[emitted[2]].v = last.response
        /\ Cardinality(At("logger.info")) = 2
        /\ \A r \in Reads : \A i \in At(r) : \E l \in At("logger.info") : l < i
        /\ \A i \in At("json.dumps(body)") : i < Len(last.trace) - 2
        /\ Len(last.trace) >= 3
        /\ SubSeq(last.trace, Len(last.trace) - 2, Len(last.trace))
              = <<"json.dumps(response)", "logger.info", "return">>

C6_Witness ==
    /\ Returned
    /\ last.log_before > 0
    /\ Len(emitted) = 2
    /\ last.event = DictV(<< <<NAME, StrV(<<"a", "\"", "b">>)>> >>)
    /\ Truthy(last.context)

\* C7: a failure in field access or serialization (an event that cannot
\* be serialized, a null event, a truthy context without function_version,
\* a function_version that cannot be serialized) ends the invocation with
\* the error: no response, no return, no operation performed twice, and no
\* line holding a response.
C7_FailuresPropagate ==
    (last.called /\ ~Servable(last.event, last.context)) =>
        /\ ~last.returned /\ last.response = None
        /\ At("return") = {} /\ At("json.dumps(response)") = {}
        /\ \A i \in 1..Len(last.trace) : Cardinality(At(last.trace[i])) = 1
        /\ \A i \in 1..Len(emitted) : ~HasAt(emitted[i], 1, ReturningPrefix)
        /\ Len(emitted) <= 1 /\ logLen = last.log_before + Len(emitted)
        /\ ~JsonDumps(last.event).ok => (last.exc = "TypeError" /\ emitted = <<>>)
        /\ (JsonDumps(last.event).ok /\ last.event.t # "dict")
              => (last.exc = "AttributeError" /\ Len(emitted) = 1)
        /\ (Servable(last.event, NoContext) /\ ~last.context.has_fv)
              => last.exc = "AttributeError"
        /\ (Servable(last.event, NoContext) /\ last.context.has_fv)
              => last.exc = "TypeError"

C7_Witness ==
    /\ Failed
    /\ last.event = None
    /\ last.exc = "AttributeError"
    /\ Len(emitted) = 1

\* C8: an invocation, returned or failed, leaves the event, the context,
\* the environment and the logger's level as they were; the log alone
\* grows, by the lines the invocation emitted.
C8_OnlyTheLogGrows ==
    last.called =>
        /\ last.event_after = last.event
        /\ last.context_after = last.context
        /\ last.environ_after = last.environ
        /\ loggerLevel = LevelAtLoad
        /\ logLen = last.log_before + Len(emitted)

C8_Witness ==
    /\ Returned
    /\ last.event = DictV(<<>>)
    /\ \A k \in EnvNames : ~last.environ[k].set
    /\ last.log_before > 0
    /\ logLen = last.log_before + 2

\* C9: every response returned has exactly the fields statusCode and body,
\* and its body decodes to a mapping with exactly the keys message, stage,
\* log_level and function_version.
C9_ResponseShape ==
    Returned =>
        /\ last.response.t = "dict"
        /\ Keys(last.response.v) = <<<<"s", "t", "a", "t", "u", "s", "C", "o", "d", "e">>, <<"b", "o", "d", "y">>>>
        /\ Lookup(last.response.v, <<"s", "t", "a", "t", "u", "s", "C", "o", "d", "e">>, None).t = "int"
        /\ Lookup(last.response.v, <<"b", "o", "d", "y">>, None).t = "str"
        /\ Body.ok /\ Body.v.t = "dict"
        /\ Keys(Body.v.v) = <<<<"m", "e", "s", "s", "a", "g", "e">>, <<"s", "t", "a", "g", "e">>, <<"l", "o", "g", "_", "l", "e", "v", "e", "l">>, <<"f", "u", "n", "c", "t", "i", "o", "n", "_", "v", "e", "r", "s", "i", "o", "n">>>>

C9_Witness ==
    /\ Returned
    /\ last.event = DictV(<< <<NAME, None>> >>)
    /\ last.context = NoContext
    /\ Len(Body.v.v) = 4

\* The environment of a process that has only STAGE and LOG_LEVEL as given.
OnlyStageAndLogLevel(env) ==
    [k \in EnvNames |-> IF k \in {"STAGE", "LOG_LEVEL"} THEN env[k] ELSE Unset]

SameOutcome(a, f) == a.returned = f.returned /\ a.exc = f.exc /\ a.response = f.response

\* C10: the outcome of an invocation is the outcome the same event, context,
\* STAGE and LOG_LEVEL give in a process that has just been loaded, whatever
\* was invoked or set before; so two runs agree on it.
C10_IndependentOfHistory ==
    last.called =>
        SameOutcome(last, Outcomes[<<last.event, last.context,
                                     OnlyStageAndLogLevel(last.environ), LevelAtLoad>>])

C10_Witness ==
    /\ Returned
    /\ last.log_before > 0
    /\ last.environ["ENV"].set
    /\ ~last.environ["STAGE"].set

====
